---- MODULE Spec2Model ----
(***************************************************************************)
(* State-machine model of the cf-token-generator CLI (src/cli.ts, kept as  *)
(* src/unnamed/part_000): fetchGitHubIPs, getPermissionGroupIds,           *)
(* createToken and getPermissionGroupId.                                   *)
(*                                                                         *)
(* A JavaScript string is a sequence of one-character strings, so that     *)
(* split, trim, includes, startsWith and template concatenation are        *)
(* computed as the code computes them.  One action is one run-to-          *)
(* completion segment of the event loop: the code between two awaits,      *)
(* together with the promise reactions (microtasks) that follow it before  *)
(* any network response or timer can be delivered.                         *)
(***************************************************************************)
EXTENDS Integers, Sequences, FiniteSets, TLC

(* ------------------------------ bounds --------------------------------- *)

\* longest permission list createToken is started with
MaxPerms == 2
\* longest single descriptor drawn for the parsing specification
MaxLen == 4
\* longest service / permission name of the "s:n" and "s/n" pairs
MaxPart == 2

(* ------------------------- JavaScript strings -------------------------- *)

\* the value of a destructured array element that does not exist
Undefined == <<"undefined">>

\* !v for a string or undefined
Falsy(v) == v = <<>> \/ v = Undefined

Whitespace == {" "}

Upper == {"A", "E", "L", "M", "N", "R", "W"}

Chr(c) == <<c>>

\* String.prototype.includes for a single character
IncludesChar(str, c) == \E i \in 1..Len(str) : str[i] = c

\* String.prototype.startsWith
StartsWith(str, prefix) ==
    /\ Len(prefix) <= Len(str)
    /\ SubSeq(str, 1, Len(prefix)) = prefix

\* String.prototype.includes
Includes(str, sub) ==
    \E i \in 0..(Len(str) - Len(sub)) : SubSeq(str, i + 1, i + Len(sub)) = sub

RECURSIVE TrimStart(_)
TrimStart(str) ==
    IF str # <<>> /\ Head(str) \in Whitespace THEN TrimStart(Tail(str)) ELSE str

RECURSIVE TrimEnd(_)
TrimEnd(str) ==
    IF str # <<>> /\ str[Len(str)] \in Whitespace
    THEN TrimEnd(SubSeq(str, 1, Len(str) - 1))
    ELSE str

\* String.prototype.trim
Trim(str) == TrimEnd(TrimStart(str))

\* String.prototype.split on a one-character separator: every part, in order
RECURSIVE SplitFrom(_, _, _)
SplitFrom(str, sep, cur) ==
    IF str = <<>> THEN <<cur>>
    ELSE IF Head(str) = sep THEN <<cur>> \o SplitFrom(Tail(str), sep, <<>>)
    ELSE SplitFrom(Tail(str), sep, Append(cur, Head(str)))

Split(str, sep) == SplitFrom(str, sep, <<>>)

\* array destructuring: the i-th element, undefined past the end
Element(parts, i) == IF i <= Len(parts) THEN parts[i] ELSE Undefined

\* Array.prototype.pop on a non-empty array: its last element
Pop(parts) == parts[Len(parts)]

\* .replace(/([A-Z])/g, ' $1')
RECURSIVE SpaceCapitals(_)
SpaceCapitals(str) ==
    IF str = <<>> THEN <<>>
    ELSE IF Head(str) \in Upper
         THEN <<" ", Head(str)>> \o SpaceCapitals(Tail(str))
         ELSE <<Head(str)>> \o SpaceCapitals(Tail(str))

(* ----------------------- configuration and inputs ---------------------- *)

Str_PERMISSION == <<"P", "E", "R", "M", "I", "S", "S", "I", "O", "N", "_">>

\* process.env.ACCOUNT_ID; non-empty, or the module exits before any command
ACCOUNT_ID == <<"A">>

\* process.env after dotenv.config(): PERMISSION_L=x, PERMISSION_MkN=A.y,
\* PERMISSION_E= (empty value), and the two required settings
ProcessEnv ==
    { [key |-> Str_PERMISSION \o <<"L">>, value |-> <<"x">>],
      [key |-> Str_PERMISSION \o <<"M", "k", "N">>, value |-> <<"A", ".", "y">>],
      [key |-> Str_PERMISSION \o <<"E">>, value |-> <<>>],
      [key |-> <<"A", "C", "C", "O", "U", "N", "T", "_", "I", "D">>, value |-> ACCOUNT_ID],
      [key |-> <<"T", "O", "K", "E", "N">>, value |-> <<"k">>] }

\* key.replace('PERMISSION_', '').replace(/([A-Z])/g, ' $1').trim()
PermissionKey(key) ==
    Trim(SpaceCapitals(SubSeq(key, Len(Str_PERMISSION) + 1, Len(key))))

\* the Record<string, string> built from the PERMISSION_* variables
getPermissionGroupIds ==
    LET entries == {e \in ProcessEnv : StartsWith(e.key, Str_PERMISSION)}
    IN  [k \in {PermissionKey(e.key) : e \in entries} |->
            (CHOOSE e \in entries : PermissionKey(e.key) = k).value]

\* permissionGroupIds[name]: undefined for a missing key
Lookup(ids, name) == IF name \in DOMAIN ids THEN ids[name] ELSE Undefined

\* response.data.result of GET .../tokens/permission_groups, in the order served
Catalog ==
    << [name |-> <<"R", "d">>, id |-> <<"g">>],
       [name |-> <<"W">>, id |-> <<"w">>],
       [name |-> <<"R", "d">>, id |-> <<"h">>] >>

\* bodies the IP registry can answer with: batch name -> CIDR list
RegistryBodies ==
    { [b \in {"actions"} |-> <<"1.2.3.0/24", "10.0.0.0/8">>],
      [b \in {"actions", "pages"} |->
          IF b = "actions" THEN <<"10.0.0.0/8">> ELSE <<>>] }

\* new Date().toISOString() at the time the payload is built
NowISO ==
    <<"2", "0", "2", "5", "-", "0", "2", "-", "0", "5", "T",
      "0", "1", ":", "0", "2", ":", "0", "3", ".", "4", "5", "6", "Z">>

\* a --valid-until value
SomeExpiration == <<"2", "0", "2", "5", "-", "1", "2", "-", "3", "1">>

(* --------------------- createToken: one descriptor --------------------- *)

\* lines 98-104: prefix the account id unless the resource already holds it
AccountTagged(resource) ==
    IF ACCOUNT_ID # <<>> /\ ~StartsWith(resource, ACCOUNT_ID)
    THEN IF ~Includes(resource, ACCOUNT_ID)
         THEN ACCOUNT_ID \o <<".">> \o resource
         ELSE resource
    ELSE resource

\* lines 106-118: the policy object returned by the map callback
Policy(service, resource) ==
    [ effect |-> "allow",
      permission_groups |->
          << [ id |-> Pop(Split(resource, ".")),
               meta |-> [key |-> "service", value |-> service] ] >>,
      resources |-> [key |-> resource, value |-> "*"] ]

NoPolicy == [effect |-> "none"]

\* Separator without the fallback: always ':'
SeparatorColonOnly(permission) == ":"

\* line 82
Separator(permission) == IF IncludesChar(permission, ":") THEN ":" ELSE "/"

\* line 83: const [service, permissionName] = permission.split(separator)
SplitPermission(permission) ==
    LET parts == Split(permission, Separator(permission))
    IN  [service |-> Element(parts, 1), permissionName |-> Element(parts, 2)]

\* InvalidFormat without the check of the name: if (!service) only
InvalidFormatServiceOnly(permission) ==
    \/ Falsy(permission)
    \/ Falsy(Element(Split(permission, Separator(permission)), 1))

\* lines 77 and 84: the two checks that throw "Invalid permission format"
InvalidFormat(permission) ==
    \/ Falsy(permission)
    \/ Falsy(SplitPermission(permission).service)
    \/ Falsy(SplitPermission(permission).permissionName)

\* line 90: permissionGroupIds[permissionName.trim()] || ''
LocalResource(ids, permissionName) ==
    LET v == Lookup(ids, Trim(permissionName))
    IN  IF Falsy(v) THEN <<>> ELSE v

\* lines 76-96: the map callback from its call to its first await (or to its
\* return or throw when it reaches none)
CallbackStart(ids, permission) ==
    IF InvalidFormat(permission)
    THEN [st |-> "rejected", error |-> "invalid_format", service |-> Undefined,
          permissionName |-> Undefined, policy |-> NoPolicy]
    ELSE LET sp == SplitPermission(permission)
             resource == LocalResource(ids, sp.permissionName)
         IN  IF Falsy(resource)
             THEN [st |-> "awaiting", error |-> "none", service |-> sp.service,
                   permissionName |-> sp.permissionName, policy |-> NoPolicy]
             ELSE [st |-> "resolved", error |-> "none", service |-> sp.service,
                   permissionName |-> sp.permissionName,
                   policy |-> Policy(sp.service, AccountTagged(resource))]

\* lines 95-118: the callback resumed with the group id of the remote lookup
CallbackResume(c, groupId) ==
    [c EXCEPT !.st = "resolved",
              !.policy = Policy(c.service,
                                AccountTagged(c.service \o <<".">> \o groupId))]

\* Find with g.name.startsWith(permissionName) instead of ===
RECURSIVE FindPrefix(_, _)
FindPrefix(catalog, permissionName) ==
    IF catalog = <<>> THEN <<>>
    ELSE IF StartsWith(Head(catalog).name, permissionName) THEN <<Head(catalog)>>
    ELSE FindPrefix(Tail(catalog), permissionName)

\* lines 173-175: result.find(g => g.name === permissionName)
RECURSIVE Find(_, _)
Find(catalog, permissionName) ==
    IF catalog = <<>> THEN <<>>
    ELSE IF Head(catalog).name = permissionName THEN <<Head(catalog)>>
    ELSE Find(Tail(catalog), permissionName)

(* ------------------------------- state --------------------------------- *)

VARIABLES
    permissions,   \* createToken's permissions argument
    expiration,    \* createToken's expiration argument (Undefined when not given)
    whitelist,     \* createToken's whitelistGitHubIPs argument
    batch,         \* createToken's githubIPBatch argument
    pc,            \* where createToken is suspended
    retries,       \* the retries argument of the running fetchGitHubIPs call
    githubIPs,     \* const githubIPs
    cb,            \* the map callbacks, one per descriptor, by index
    settled,       \* indices of the callbacks in the order their promises resolved
    inflight,      \* network calls issued and not yet answered
    calls,         \* every network call issued so far, in order
    ipLog,         \* how each IP-registry GET ended, in order
    posted,        \* the request of the token POST, <<>> until it is issued
    exitCode,      \* -1 while the process runs, then its exit status
    error,         \* the error the run ended with
    fileWritten    \* cf-token.txt has been written

inputs == <<permissions, expiration, whitelist, batch>>
vars == <<permissions, expiration, whitelist, batch, pc, retries, githubIPs, cb,
          settled, inflight, calls, ipLog, posted, exitCode, error, fileWritten>>

\* the retries default of fetchGitHubIPs
DefaultRetries == 3

IpCall == [kind |-> "ip", idx |-> 0, name |-> <<>>]
PostCall == [kind |-> "post", idx |-> 0, name |-> <<>>]
\* line 94: getPermissionGroupId(permissionName.trim())
CatalogCall(i, c) == [kind |-> "catalog", idx |-> i, name |-> Trim(c.permissionName)]

None == <<>>
Some(v) == <<v>>

\* Condition as an object that is always sent, empty when not whitelisting
ConditionAlways(wl, ips) ==
    Some([request_ip |-> [in |-> IF wl THEN ips ELSE <<>>]])

\* lines 120-126
Condition(wl, ips) ==
    IF wl THEN Some([request_ip |-> [in |-> ips]]) ELSE None

\* Policies collected as the callbacks finish (results.push in each callback)
PoliciesInSettleOrder(cbs, order) == [k \in 1..Len(cbs) |-> cbs[order[k]].policy]

\* line 75: Promise.all keeps the position of each promise of permissions.map
Policies(cbs, order) == [i \in 1..Len(cbs) |-> cbs[i].policy]

\* lines 73-129: the payload object; an undefined property is None
Payload(cbs, order, wl, ips, exp) ==
    [ name |-> "Generated Token",
      policies |-> Policies(cbs, order),
      condition |-> Condition(wl, ips),
      expires_on |-> IF Falsy(exp) THEN None ELSE Some(exp),
      not_before |-> Split(NowISO, ".")[1] \o <<"Z">> ]

\* the JSON body axios sends: undefined properties are left out
JsonKeys(payload) ==
    {"name", "policies", "not_before"}
        \cup (IF payload.condition # None THEN {"condition"} ELSE {})
        \cup (IF payload.expires_on # None THEN {"expires_on"} ELSE {})

\* Exit as a catch block that only logs (as createToken of src/index.ts does):
\* the run ends with status 0
ExitLogOnly(err, issued) ==
    /\ pc' = "done"
    /\ exitCode' = 0
    /\ error' = err
    /\ inflight' = {}
    /\ calls' = calls \o issued
    /\ UNCHANGED <<posted, fileWritten>>

\* process.exit(1): whatever is in flight is abandoned
Exit(err, issued) ==
    /\ pc' = "exited"
    /\ exitCode' = 1
    /\ error' = err
    /\ inflight' = {}
    /\ calls' = calls \o issued
    /\ UNCHANGED <<posted, fileWritten>>

\* lines 73-140 once every callback has resolved: build the payload and POST it
BuildAndPost(cbs, order, ips, issued) ==
    /\ pc' = "post_wait"
    /\ posted' = Some([body |-> Payload(cbs, order, whitelist, ips, expiration),
                       keys |-> JsonKeys(Payload(cbs, order, whitelist, ips, expiration))])
    /\ inflight' = {PostCall}
    /\ calls' = calls \o issued \o <<PostCall>>
    /\ UNCHANGED <<exitCode, error, fileWritten>>

\* Lookups of a loop that awaits each descriptor in turn: only the first
\* lookup is issued by the time the loop first suspends
RECURSIVE LookupsFirstOnly(_, _)
LookupsFirstOnly(cbs, i) ==
    IF i > Len(cbs) THEN <<>>
    ELSE IF cbs[i].st = "awaiting" THEN <<CatalogCall(i, cbs[i])>>
    ELSE LookupsFirstOnly(cbs, i + 1)

\* the catalog GETs the callbacks of cbs issue, in input order
RECURSIVE Lookups(_, _)
Lookups(cbs, i) ==
    IF i > Len(cbs) THEN <<>>
    ELSE (IF cbs[i].st = "awaiting" THEN <<CatalogCall(i, cbs[i])>> ELSE <<>>)
             \o Lookups(cbs, i + 1)

\* indices of the callbacks that returned without awaiting, in input order
RECURSIVE ResolvedAtOnce(_, _)
ResolvedAtOnce(cbs, i) ==
    IF i > Len(cbs) THEN <<>>
    ELSE (IF cbs[i].st = "resolved" THEN <<i>> ELSE <<>>) \o ResolvedAtOnce(cbs, i + 1)

\* line 75: permissions.map(async ...) calls every callback, each running to
\* its first await
MapCallbacks(ids, perms) == [i \in 1..Len(perms) |-> CallbackStart(ids, perms[i])]

\* lines 71-140 from the moment githubIPs is known: the map runs every
\* callback to its first await, then Promise.all settles or stays pending
AfterIPs(ips) ==
    LET cbs == MapCallbacks(getPermissionGroupIds, permissions)
        issued == Lookups(cbs, 1)
        order == ResolvedAtOnce(cbs, 1)
    IN  /\ githubIPs' = ips
        /\ cb' = cbs
        /\ settled' = order
        /\ IF \E i \in 1..Len(cbs) : cbs[i].st = "rejected"
           THEN Exit("invalid_format", issued)
           ELSE IF \A i \in 1..Len(cbs) : cbs[i].st = "resolved"
           THEN BuildAndPost(cbs, order, ips, issued)
           ELSE /\ pc' = "await_all"
                /\ inflight' = {issued[k] : k \in 1..Len(issued)}
                /\ calls' = calls \o issued
                /\ UNCHANGED <<posted, exitCode, error, fileWritten>>

(* ------------------------------ actions -------------------------------- *)

\* createToken is called (lines 69-71)
Start ==
    /\ pc = "start"
    /\ IF whitelist
       THEN /\ pc' = "ip_wait"
            /\ inflight' = {IpCall}
            /\ calls' = Append(calls, IpCall)
            /\ UNCHANGED <<githubIPs, cb, settled, posted, exitCode, error, fileWritten>>
       ELSE AfterIPs(<<>>)
    /\ UNCHANGED <<inputs, retries, ipLog>>

\* line 24: response.data[batch] || []
BatchOf(body, b) == IF b \in DOMAIN body THEN body[b] ELSE <<>>

\* fetchGitHubIPs: the GET is answered (lines 21-24)
IPSuccess ==
    /\ pc = "ip_wait"
    /\ \E body \in RegistryBodies :
          /\ ipLog' = Append(ipLog, IF batch \in DOMAIN body THEN "ok" ELSE "nokey")
          /\ AfterIPs(BatchOf(body, batch))
    /\ UNCHANGED <<inputs, retries>>

\* IPFailure that rethrows once the retries are used up, aborting createToken
IPFailureAborts ==
    /\ pc = "ip_wait"
    /\ ipLog' = Append(ipLog, "fail")
    /\ IF retries > 0
       THEN /\ pc' = "ip_backoff"
            /\ inflight' = {}
            /\ UNCHANGED <<githubIPs, cb, settled, calls, posted, exitCode, error,
                           fileWritten>>
       ELSE /\ Exit("ip_fetch", <<>>)
            /\ UNCHANGED <<githubIPs, cb, settled>>
    /\ UNCHANGED <<inputs, retries>>

\* fetchGitHubIPs: the GET fails or times out (lines 25-33)
IPFailure ==
    /\ pc = "ip_wait"
    /\ ipLog' = Append(ipLog, "fail")
    /\ IF retries > 0
       THEN /\ pc' = "ip_backoff"
            /\ inflight' = {}
            /\ UNCHANGED <<githubIPs, cb, settled, calls, posted, exitCode, error,
                           fileWritten>>
       ELSE AfterIPs(<<>>)
    /\ UNCHANGED <<inputs, retries>>

\* IPRetry that calls fetchGitHubIPs(batch, retries): the counter is not
\* lowered
IPRetrySameCount ==
    /\ pc = "ip_backoff"
    /\ retries' = retries
    /\ pc' = "ip_wait"
    /\ inflight' = {IpCall}
    /\ calls' = Append(calls, IpCall)
    /\ UNCHANGED <<inputs, githubIPs, cb, settled, ipLog, posted, exitCode, error,
                   fileWritten>>

\* fetchGitHubIPs: the one-second timer fires, fetchGitHubIPs(batch, retries - 1)
IPRetry ==
    /\ pc = "ip_backoff"
    /\ retries' = retries - 1
    /\ pc' = "ip_wait"
    /\ inflight' = {IpCall}
    /\ calls' = Append(calls, IpCall)
    /\ UNCHANGED <<inputs, githubIPs, cb, settled, ipLog, posted, exitCode, error,
                   fileWritten>>

\* getPermissionGroupId for descriptor i: the catalog is served (lines 172-181)
CatalogSuccess(i) ==
    /\ pc = "await_all"
    /\ cb[i].st = "awaiting"
    /\ LET found == Find(Catalog, Trim(cb[i].permissionName))
           cbs == [cb EXCEPT ![i] = CallbackResume(cb[i], found[1].id)]
           order == Append(settled, i)
       IN  IF found = <<>>
           THEN /\ Exit("permission_not_found", <<>>)
                /\ UNCHANGED <<cb, settled>>
           ELSE /\ cb' = cbs
                /\ settled' = order
                /\ IF \A j \in 1..Len(cbs) : cbs[j].st = "resolved"
                   THEN BuildAndPost(cbs, order, githubIPs, <<>>)
                   ELSE /\ inflight' = inflight \ {CatalogCall(i, cb[i])}
                        /\ UNCHANGED <<pc, calls, posted, exitCode, error, fileWritten>>
    /\ UNCHANGED <<inputs, retries, githubIPs, ipLog>>

\* getPermissionGroupId for descriptor i: the GET fails, or the body says
\* success: false (lines 182-188)
CatalogFailure(i) ==
    /\ pc = "await_all"
    /\ cb[i].st = "awaiting"
    /\ Exit("remote_lookup", <<>>)
    /\ UNCHANGED <<inputs, retries, githubIPs, cb, settled, ipLog>>

\* the token POST is answered with success: true (lines 142-150)
PostSuccess ==
    /\ pc = "post_wait"
    /\ pc' = "done"
    /\ exitCode' = 0
    /\ fileWritten' = TRUE
    /\ inflight' = {}
    /\ UNCHANGED <<inputs, retries, githubIPs, cb, settled, calls, ipLog, posted, error>>

\* the token POST fails, or the body says success: false (lines 151-157)
PostFailure ==
    /\ pc = "post_wait"
    /\ Exit("token_creation", <<>>)
    /\ UNCHANGED <<inputs, retries, githubIPs, cb, settled, ipLog>>

Next ==
    \/ Start
    \/ IPSuccess
    \/ IPFailure
    \/ IPRetry
    \/ \E i \in 1..Len(cb) : CatalogSuccess(i)
    \/ \E i \in 1..Len(cb) : CatalogFailure(i)
    \/ PostSuccess
    \/ PostFailure

(* --------------------------- specifications ---------------------------- *)

\* descriptors a user can pass with --permissions
Descriptors ==
    { <<"s", ":", "L">>,                 \* name in the local map
      <<"t", ":", " ", "L", " ">>,       \* the same name, to be trimmed
      <<"t", ":", "M", "k", " ", "N">>,  \* local id that holds the account id
      <<"s", "/", "R", "d">>,            \* name in the remote catalog only
      <<"u", ":", "W">>,                 \* another catalog name
      <<"s", ":", "r", "d">>,            \* differs from a catalog name by case
      <<"s", ":", "R">>,                 \* prefix of a catalog name
      <<"s", "L">>,                      \* no separator
      <<":", "L">>,                      \* empty service
      <<"s", ":">>,                      \* empty name
      <<"s", ":", " ">>,                 \* name of whitespace only
      <<"s", ":", "L", ":", "W">>,       \* two separators
      <<>> }                             \* empty string

PermissionLists == UNION {[1..n -> Descriptors] : n \in 0..MaxPerms}

TypeInit ==
    /\ pc = "start"
    /\ retries = DefaultRetries
    /\ githubIPs = <<>>
    /\ cb = <<>>
    /\ settled = <<>>
    /\ inflight = {}
    /\ calls = <<>>
    /\ ipLog = <<>>
    /\ posted = None
    /\ exitCode = -1
    /\ error = "none"
    /\ fileWritten = FALSE

\* the CLI handler calls createToken (lines 223-231)
Init ==
    /\ permissions \in PermissionLists
    /\ expiration \in {Undefined, SomeExpiration}
    /\ whitelist \in BOOLEAN
    /\ batch \in {"actions", "pages"}
    /\ TypeInit

Spec == Init /\ [][Next]_vars

\* characters of the descriptors of the parsing specification
Alphabet == {"s", "L", ":", "/", " "}

Strings(n) == UNION {[1..k -> Alphabet] : k \in 0..n}

\* createToken called with --no-github-ips on one arbitrary descriptor, or on
\* the two spellings "s:n" and "s/n" of one service and name
ParseInit ==
    /\ permissions \in
          {<<d>> : d \in Strings(MaxLen)}
              \cup {<<sn[1] \o <<":">> \o sn[2], sn[1] \o <<"/">> \o sn[2]>> :
                       sn \in Strings(MaxPart) \X Strings(MaxPart)}
    /\ expiration = Undefined
    /\ whitelist = FALSE
    /\ batch = "actions"
    /\ TypeInit

ParseNext == Start

ParseSpec == ParseInit /\ [][ParseNext]_vars

(* ------------------------- vocabulary of the claims --------------------- *)

Kinds(cs) == {cs[k].kind : k \in 1..Len(cs)}

\* how many catalog GETs were issued for descriptor i
CatalogGets(i) ==
    Cardinality({k \in 1..Len(calls) : calls[k].kind = "catalog" /\ calls[k].idx = i})

IpGets == Cardinality({k \in 1..Len(calls) : calls[k].kind = "ip"})

\* the map has run: createToken is past line 119's call of permissions.map
Mapped == pc \notin {"start", "ip_wait", "ip_backoff"}

ResolutionErrors == {"invalid_format", "remote_lookup", "permission_not_found"}

\* the separator the specification recognizes in d: ':', or '/' when d
\* holds no ':'
Recognized(d) == IF \E k \in 1..Len(d) : d[k] = ":" THEN ":" ELSE "/"

\* the three malformations the specification names: no separator at all, an
\* empty service, an empty name
Malformed(d) ==
    \/ ~IncludesChar(d, ":") /\ ~IncludesChar(d, "/")
    \/ Element(Split(d, Recognized(d)), 1) = <<>>
    \/ Element(Split(d, Recognized(d)), 2) = <<>>

\* descriptor i passed validation and has no usable id in the local map
NeedsLookup(i) ==
    /\ ~InvalidFormat(permissions[i])
    /\ LocalResource(getPermissionGroupIds,
                     SplitPermission(permissions[i]).permissionName) = <<>>

(* -------------------------------- C1 ----------------------------------- *)

\* C1: when the resolution of any descriptor has failed (a descriptor was
\* rejected as malformed, a catalog GET failed, or a name was not found in the
\* catalog) the run has ended with exit status 1, the token POST was never
\* issued and cf-token.txt was never written; and a POST is only ever issued
\* with every descriptor of the list resolved.
C1_AbortOnResolutionFailure ==
    /\ (error \in ResolutionErrors \/ \E i \in 1..Len(cb) : cb[i].st = "rejected")
          => /\ pc = "exited"
             /\ exitCode = 1
             /\ posted = None
             /\ "post" \notin Kinds(calls)
             /\ ~fileWritten
    /\ posted # None
          => /\ Len(cb) = Len(permissions)
             /\ \A i \in 1..Len(cb) : cb[i].st = "resolved"

\* C1 witness: the second of two descriptors is not in the catalog, after the
\* first one was resolved remotely
C1_Witness ==
    /\ Len(permissions) = 2
    /\ Len(cb) = 2
    /\ error = "permission_not_found"
    /\ cb[1].st = "resolved"
    /\ cb[2].st = "awaiting"
    /\ CatalogGets(1) = 1

(* -------------------------------- C2 ----------------------------------- *)

Occurrences(str, c) == Cardinality({k \in 1..Len(str) : str[k] = c})

\* the specification's well-formed descriptor: exactly one recognized
\* separator (':', or '/' when there is no ':'), and two parts that are
\* non-empty after trimming
WellFormed(d) ==
    /\ Occurrences(d, Recognized(d)) = 1
    /\ Trim(Split(d, Recognized(d))[1]) # <<>>
    /\ Trim(Split(d, Recognized(d))[2]) # <<>>

\* C3: a descriptor is accepted by the validation of createToken only if it
\* is well-formed, and every descriptor that is not well-formed is rejected
\* with the invalid-format error.
C3_AcceptsOnlyWellFormed ==
    Mapped /\ Len(permissions) = 1
        => (cb[1].st # "rejected" <=> WellFormed(permissions[1]))

(* -------------------------------- C4 ----------------------------------- *)

\* C4: the request of the token POST has a condition field exactly when
\* whitelisting is enabled; when it is disabled the field is left out and no
\* IP list was fetched, and when it is enabled condition.request_ip.in is the
\* list fetchGitHubIPs returned: the entry of the answered registry body for
\* the chosen batch, in its order.
C4_ConditionIffWhitelist ==
    posted # None
        => /\ "condition" \in posted[1].keys <=> whitelist
           /\ ~whitelist => posted[1].body.condition = None /\ IpGets = 0
           /\ whitelist =>
                 /\ posted[1].body.condition = Some([request_ip |-> [in |-> githubIPs]])
                 /\ ipLog[Len(ipLog)] = "ok" =>
                       \E body \in RegistryBodies :
                          /\ batch \in DOMAIN body
                          /\ posted[1].body.condition[1].request_ip.in = body[batch]

\* C4 witness: a token request posted with a two-entry IP list
C4_Witness ==
    /\ posted # None
    /\ whitelist
    /\ Len(posted[1].body.condition[1].request_ip.in) = 2
    /\ Len(permissions) = 2

(* -------------------------------- C5 ----------------------------------- *)

Dot == <<".">>

\* C5: a descriptor whose trimmed name is a key of the local map, with an id
\* that does not hold the account id, is resolved without a catalog GET into
\* a policy whose resource key is service, account id and local id joined by
\* dots; a descriptor resolved through the catalog gets a resource key of the
\* same composition, service, account id and catalog id.
C5_ResourceKeyServiceAccountId ==
    \A i \in 1..Len(cb) :
        LET sp == SplitPermission(permissions[i])
            ids == getPermissionGroupIds
            name == Trim(sp.permissionName)
        IN  /\ (/\ ~InvalidFormat(permissions[i])
                /\ name \in DOMAIN ids
                /\ ids[name] # <<>>
                /\ ~Includes(ids[name], ACCOUNT_ID))
                  => /\ CatalogGets(i) = 0
                     /\ cb[i].st = "resolved"
                     /\ cb[i].policy.resources.key
                           = sp.service \o Dot \o ACCOUNT_ID \o Dot \o ids[name]
            /\ (NeedsLookup(i) /\ cb[i].st = "resolved")
                  => cb[i].policy.resources.key
                        = sp.service \o Dot \o ACCOUNT_ID \o Dot
                             \o Find(Catalog, name)[1].id

(* -------------------------------- C6 ----------------------------------- *)

NamesOf(catalog) == {catalog[k].name : k \in 1..Len(catalog)}

\* C6: a descriptor that passes validation and whose trimmed name is no key
\* of the local map causes exactly one catalog GET, for the trimmed name; it
\* is resolved only to the id of the first catalog entry whose name equals the
\* trimmed name exactly, and is never resolved when the catalog has no such
\* entry; the permission-not-found error ends the run with exit status 1 and
\* without a token POST.
C6_RemoteLookupExactMatch ==
    /\ \A i \in 1..Len(cb) :
          LET name == Trim(SplitPermission(permissions[i]).permissionName)
          IN  (~InvalidFormat(permissions[i]) /\ name \notin DOMAIN getPermissionGroupIds)
                 => /\ CatalogGets(i) = 1
                    /\ \E k \in 1..Len(calls) :
                          calls[k] = [kind |-> "catalog", idx |-> i, name |-> name]
                    /\ cb[i].st = "resolved" =>
                          \E k \in 1..Len(Catalog) :
                             /\ Catalog[k].name = name
                             /\ \A j \in 1..(k - 1) : Catalog[j].name # name
                             /\ cb[i].policy.permission_groups[1].id = Catalog[k].id
                    /\ name \notin NamesOf(Catalog) => cb[i].st = "awaiting"
    /\ error = "permission_not_found"
          => /\ pc = "exited"
             /\ exitCode = 1
             /\ posted = None
             /\ \E i \in 1..Len(cb) :
                   /\ cb[i].st = "awaiting"
                   /\ Trim(cb[i].permissionName) \notin NamesOf(Catalog)

\* C6 witness: "s/Rd" was resolved through the catalog to the first "Rd"
\* entry, then the name "R" of the second descriptor was not found
C6_Witness ==
    /\ permissions = << <<"s", "/", "R", "d">>, <<"s", ":", "R">> >>
    /\ Len(cb) = 2
    /\ cb[1].st = "resolved"
    /\ cb[1].policy.permission_groups[1].id = <<"g">>
    /\ error = "permission_not_found"
    /\ CatalogGets(2) = 1

(* -------------------------------- C7 ----------------------------------- *)

\* the policy createToken makes of descriptor d once it is resolved
ExpectedPolicy(d) ==
    LET c == CallbackStart(getPermissionGroupIds, d)
    IN  IF c.st = "resolved" THEN c.policy
        ELSE CallbackResume(c, Find(Catalog, Trim(c.permissionName))[1].id).policy

\* C7: the policies of the posted token request are as many as the input
\* descriptors, and the i-th policy is the one made of the i-th descriptor
\* (its service, its group id), in whatever order the lookups completed.
C7_PoliciesFollowInput ==
    posted # None
        => /\ Len(posted[1].body.policies) = Len(permissions)
           /\ \A i \in 1..Len(permissions) :
                 /\ posted[1].body.policies[i] = ExpectedPolicy(permissions[i])
                 /\ posted[1].body.policies[i].permission_groups[1].meta.value
                       = SplitPermission(permissions[i]).service

\* C7 witness: the lookup of the second descriptor completed before the
\* lookup of the first, and the two policies differ
C7_Witness ==
    /\ posted # None
    /\ settled = <<2, 1>>
    /\ posted[1].body.policies[1] # posted[1].body.policies[2]

(* -------------------------------- C8 ----------------------------------- *)

\* C8: when "s:n" and "s/n" are both well-formed, createToken accepts both
\* and splits them into the same service and the same permission name, the
\* parts on either side of the separator.
C8_SeparatorTransparent ==
    (/\ Mapped
     /\ Len(permissions) = 2
     /\ WellFormed(permissions[1])
     /\ WellFormed(permissions[2]))
        => /\ cb[1].st # "rejected"
           /\ cb[2].st # "rejected"
           /\ cb[1].service = cb[2].service
           /\ cb[1].permissionName = cb[2].permissionName
           /\ permissions[1] = cb[1].service \o <<":">> \o cb[1].permissionName
           /\ permissions[2] = cb[2].service \o <<"/">> \o cb[2].permissionName

\* C8 witness: "s: L" and "s/ L" have been split
C8_Witness ==
    /\ Mapped
    /\ permissions = << <<"s", ":", " ", "L">>, <<"s", "/", " ", "L">> >>
    /\ cb[2].permissionName = <<" ", "L">>

(* -------------------------------- C9 ----------------------------------- *)

\* C9: with whitelisting enabled, fetchGitHubIPs issues at most 1 +
\* DefaultRetries GETs; when all of them failed, or when the answered body
\* lacks the batch key, it returns the empty list and createToken goes on:
\* every descriptor is handed to the map, the run can only end in error
\* through a descriptor or the POST, the POST is issued once all descriptors
\* are resolved, and its request carries condition.request_ip.in = [].
C9_FetchFailureGivesEmptyList ==
    /\ Len(ipLog) <= DefaultRetries + 1
    /\ (Mapped /\ whitelist /\ ipLog[Len(ipLog)] \in {"fail", "nokey"})
          => /\ ipLog[Len(ipLog)] = "fail" =>
                   /\ Len(ipLog) = DefaultRetries + 1
                   /\ IpGets = DefaultRetries + 1
                   /\ \A k \in 1..Len(ipLog) : ipLog[k] = "fail"
             /\ githubIPs = <<>>
             /\ Len(cb) = Len(permissions)
             /\ pc = "exited" => error \in ResolutionErrors \cup {"token_creation"}
             /\ (\A i \in 1..Len(cb) : cb[i].st = "resolved") => posted # None
             /\ posted # None =>
                   /\ "condition" \in posted[1].keys
                   /\ posted[1].body.condition = Some([request_ip |-> [in |-> <<>>]])

\* C9 witness: four failed GETs, then a token request posted with an empty
\* IP list
C9_Witness ==
    /\ whitelist
    /\ ipLog = <<"fail", "fail", "fail", "fail">>
    /\ posted # None
    /\ posted[1].body.condition[1].request_ip.in = <<>>
    /\ Len(permissions) = 2

(* -------------------------------- C10 ---------------------------------- *)

\* C10 as stated: at most one network call is in flight at any time, the
\* lookup of a descriptor is in flight only when every earlier descriptor is
\* resolved, and no lookup is issued for a descriptor that follows a failed
\* one.
C10_OneCallAtATime ==
    /\ Cardinality(inflight) <= 1
    /\ \A c \in inflight :
          c.kind = "catalog" => \A j \in 1..(c.idx - 1) : cb[j].st = "resolved"
    /\ \A i \in 1..Len(cb) :
          cb[i].st = "rejected" => \A j \in (i + 1)..Len(cb) : CatalogGets(j) = 0

\* C10 amended: an IP-registry GET or the token POST is never in flight
\* together with any other call, no catalog lookup starts before the IP fetch
\* has returned, and the POST is issued only when every descriptor is
\* resolved; the catalog lookups are not serialized: once the map has run,
\* one lookup has been issued, in input order, for every descriptor that
\* passes validation and has no local id, also for those that precede or
\* follow a rejected descriptor, and while createToken awaits them all
\* unanswered lookups are in flight together.
C10_LookupsStartTogether ==
    /\ \A c \in inflight : c.kind \in {"ip", "post"} => inflight = {c}
    /\ "ip" \in Kinds(calls) /\ ~Mapped => Kinds(calls) = {"ip"}
    /\ PostCall \in inflight => \A i \in 1..Len(cb) : cb[i].st = "resolved"
    /\ Mapped =>
          /\ \A i \in 1..Len(permissions) :
                CatalogGets(i) = IF NeedsLookup(i) THEN 1 ELSE 0
          /\ \A k, l \in 1..Len(calls) :
                (k < l /\ calls[k].kind = "catalog" /\ calls[l].kind = "catalog")
                    => calls[k].idx < calls[l].idx
    /\ pc = "await_all" =>
          inflight = {CatalogCall(i, cb[i]) : i \in {j \in 1..Len(cb) : cb[j].st = "awaiting"}}

\* C10 witness: two catalog lookups in flight at the same time
C10_Witness ==
    /\ Cardinality(inflight) = 2
    /\ \A c \in inflight : c.kind = "catalog"

(* -------------------------------- C11 ---------------------------------- *)

\* createToken called with whitelisting enabled and no descriptor: what
\* fetchGitHubIPs does depends on neither
FetchInit ==
    /\ permissions = <<>>
    /\ expiration \in {Undefined, SomeExpiration}
    /\ whitelist = TRUE
    /\ batch \in {"actions", "pages"}
    /\ TypeInit

\* the steps of that run: the IP fetch, then the POST of a request without
\* policies
FetchNext ==
    \/ Start
    \/ IPSuccess
    \/ IPFailure
    \/ IPRetry
    \/ PostSuccess
    \/ PostFailure

\* every GET settles (a response, an error, or the 5 second timeout of line
\* 22) and the one-second timer of line 28 fires
FetchSpec ==
    /\ FetchInit
    /\ [][FetchNext]_vars
    /\ WF_vars(IPSuccess \/ IPFailure)
    /\ WF_vars(IPRetry)

\* fetchGitHubIPs is running: a GET is in flight or the retry timer is pending
Fetching == pc \in {"ip_wait", "ip_backoff"}

\* C11: fetchGitHubIPs called with retries = 3 always returns; it issues at
\* most 4 GETs, one for each value 3, 2, 1, 0 of the retry counter, which
\* goes down by one with every GET after the first and only after a failed
\* GET; and after a GET that is answered, with or without the batch key, no
\* further GET is issued.
C11_FetchTerminatesWithinFourGets ==
    /\ [](/\ IpGets <= 4
          /\ retries \in 0..DefaultRetries
          /\ pc # "start" => IpGets = (DefaultRetries - retries) + 1
          /\ (pc = "ip_backoff") => retries > 0 /\ ipLog[Len(ipLog)] = "fail"
          /\ (~Fetching /\ pc # "start" /\ ipLog[Len(ipLog)] = "fail") => retries = 0)
    /\ [][IpGets' > IpGets /\ IpGets > 0
             => retries' = retries - 1 /\ ipLog[Len(ipLog)] = "fail"]_vars
    /\ [][(ipLog # <<>> /\ ipLog[Len(ipLog)] \in {"ok", "nokey"})
             => IpGets' = IpGets /\ ~Fetching']_vars
    /\ Fetching ~> ~Fetching

\* C11 witness: three failed GETs, then a fourth that is answered without the
\* batch key, and fetchGitHubIPs has returned the empty list
C11_Witness ==
    /\ ipLog = <<"fail", "fail", "fail", "nokey">>
    /\ IpGets = 4
    /\ retries = 0
    /\ ~Fetching
    /\ githubIPs = <<>>

====
